---- MODULE Spec2Model ----
(***************************************************************************)
(* A model of the crawl session of One_Touch_Plus: CrawlManager (visited   *)
(* ledger and per-domain heaps), RetryQueue, the asyncio semaphore, the    *)
(* per-execution ThrottleController, process_url and start_scraping.       *)
(*                                                                         *)
(* asyncio is single-threaded and cooperative: code between two awaits is  *)
(* one atomic step.  Every action below is the code from one suspension    *)
(* point of a coroutine to its next one.  Time is counted in ticks of one  *)
(* second; sleeps are timers that Tick counts down.                        *)
(***************************************************************************)
EXTENDS Integers, Sequences, FiniteSets, TLC

(***************************************************************************)
(* URLs.  A URL is kept in the parsed form urlparse gives it, so that      *)
(* urlparse(url).netloc and urlparse(url).path are field reads.  The path  *)
(* is the sequence of its segments.                                        *)
(***************************************************************************)
Url(s, n, p) == [scheme |-> s, netloc |-> n, path |-> p]

A0 == Url("https", "a.test", <<>>)
Ax == Url("https", "a.test", <<"x">>)
Ay == Url("https", "a.test", <<"y">>)
Adocs == Url("https", "a.test", <<"docs">>)
Adown == Url("https", "a.test", <<"down">>)
Abad == Url("https", "a.test", <<"bad">>)
Aflaky == Url("https", "a.test", <<"flaky">>)
B0 == Url("https", "b.test", <<>>)
Bbad == Url("https", "b.test", <<"bad">>)
H0 == Url("http", "a.test", <<>>)

Urls == {A0, Ax, Ay, Adocs, Adown, Abad, Aflaky, B0, Bbad, H0}

Netlocs == {u.netloc : u \in Urls}

(***************************************************************************)
(* The web the crawler meets (the collaborators' answers).                 *)
(***************************************************************************)
\* What fetch_page can give for a URL: "ok" is the page dict, "empty" is the
\* {} it returns on a non-200 status or on any exception of the request.
FetchOutcomes(u) ==
    IF u = Adown THEN {"empty"}
    ELSE IF u = Aflaky THEN {"ok", "empty"}
    ELSE {"ok"}

\* The links extract_links returns for the page of u (after its filters).
PageLinks(u) ==
    IF u = A0 THEN <<Ax, Ay, Adocs>>
    ELSE IF u = Ax THEN <<Ay>>
    ELSE IF u = Adocs THEN <<Ax>>
    ELSE IF u = Aflaky THEN <<A0, Aflaky>>
    ELSE <<>>

\* Pages holding an href that urljoin/urlparse reject: extract_links raises.
ExtractRaises(u) == u \in {Abad, Bbad}

\* The answer of the robots.txt of the site for a URL.
RobotsDisallows(u) == u = Ay

(***************************************************************************)
(* Python values the code compares.                                        *)
(***************************************************************************)
RECURSIVE Pow(_, _)
Pow(b, e) == IF e <= 0 THEN 1 ELSE b * Pow(b, e - 1)

\* str comparison of the URLs above, by the rank of their parts: ':' sorts
\* before 's' (http://... < https://...), a prefix before its extensions.
PartRank(s) ==
    CASE s = "http" -> 1
      [] s = "https" -> 2
      [] s = "a.test" -> 1
      [] s = "b.test" -> 2
      [] s = "bad" -> 1
      [] s = "docs" -> 2
      [] s = "down" -> 3
      [] s = "flaky" -> 4
      [] s = "legal" -> 5
      [] s = "x" -> 6
      [] s = "y" -> 7

UrlKey(u) == <<PartRank(u.scheme), PartRank(u.netloc)>> \o [i \in 1..Len(u.path) |-> PartRank(u.path[i])]

RECURSIVE SeqLess(_, _)
SeqLess(a, b) ==
    IF a = <<>> THEN b # <<>>
    ELSE IF b = <<>> THEN FALSE
    ELSE IF Head(a) # Head(b) THEN Head(a) < Head(b)
    ELSE SeqLess(Tail(a), Tail(b))

StrLess(u, v) == SeqLess(UrlKey(u), UrlKey(v))

\* tuple comparison of heap entries (score, url, depth)
EntryLess(e, f) ==
    IF e[1] # f[1] THEN e[1] < f[1]
    ELSE IF e[2] # f[2] THEN StrLess(e[2], f[2])
    ELSE e[3] < f[3]

\* The value a call of the coroutine function is_allowed_by_robots gives its
\* caller: a coroutine object (which would give its answer only if awaited).
is_allowed_by_robots(u) == [type |-> "coroutine", val |-> ~RobotsDisallows(u)]

\* Python truth value: a bool is itself, any coroutine object is true.
Truthy(v) == IF v.type = "bool" THEN v.val ELSE TRUE

(***************************************************************************)
(* Program constants and bounds.                                           *)
(***************************************************************************)
CONCURRENT_TASKS == 5

BaseScore == 100

ScoreStep == 20

Backoff == 2

\* time.time(): seconds since 1970, far above any configured delay
Epoch == 1000

MaxDepthCfg == 1

MaxRetriesCfg == 3

\* throttle(): the largest request_delay and the number of callers
MaxDelay == 2

NumCallers == 3

\* launch_agents: the largest num_agents
MaxAgents == 3

\* with_retries: the largest max_retries, delay and backoff
MaxWrapRetries == 3

MaxWrapDelay == 3


(***************************************************************************)
(* The configurations and seed lists of the sessions checked.              *)
(***************************************************************************)
Config(t, d, r, ro, dn, cr) ==
    [targets |-> t, max_depth |-> d, max_retries |-> r, use_robots |-> ro,
     request_delay |-> 1, delay_is_number |-> dn, snapshot_dir_fails |-> cr,
     boost_keywords |-> <<"docs">>, penalty_keywords |-> <<"legal">>]

SmallTargets == {<<A0, Ax, B0>>, <<Abad, Bbad>>, <<A0, A0, Aflaky>>, <<Adown, Adocs>>}

Configs ==
    {Config(t, d, r, ro, TRUE, FALSE) :
        t \in SmallTargets, d \in 0..MaxDepthCfg, r \in 1..MaxRetriesCfg, ro \in BOOLEAN}
    \cup {Config(<<A0, Ax, Ay, Adown, B0, H0>>, 0, 1, TRUE, TRUE, FALSE)}
    \cup {Config(<<A0, Ax, Abad, Adown, B0, H0>>, 0, 1, TRUE, TRUE, FALSE)}
    \cup {Config(<<A0, B0>>, 1, MaxRetriesCfg, TRUE, FALSE, FALSE)}
    \cup {Config(<<A0, B0>>, 1, r, TRUE, TRUE, TRUE) : r \in 1..MaxRetriesCfg}
    \cup {Config(<<A0, Ax, B0>>, 0, 2, TRUE, TRUE, TRUE)}
    \cup {Config(<<>>, 1, 1, TRUE, TRUE, FALSE)}

VARIABLES
    cfg,        \* the configuration and the targets of the session
    queues,     \* CrawlManager.queues: the domains in key order, each with its heap
    visited,    \* CrawlManager.visited
    retryq,     \* RetryQueue.queue
    sem,        \* the value of the asyncio.Semaphore
    tasks,      \* the process_url tasks, in creation order
    main,       \* where start_scraping stands
    idx,        \* start_scraping: the seeds added so far
    pending,    \* RetryQueue.next: the item popped, during its backoff sleep
    mainTimer,  \* ticks left of the sleep start_scraping is suspended in
    age,        \* per domain: ticks since its last fetch started (-1: none yet)
    lastGap,    \* per domain: the age at its last fetch start (-1: none before)
    admitted,   \* the log of add_url's pushes ("Enqueued URL ...")
    served,     \* the log of get_next_url's results
    controller, \* one ThrottleController: delay and domain_timestamps
    callers,    \* the throttle() calls on it
    stamped,    \* the log of its writes of domain_timestamps
    launch,     \* launch_agents: its arguments and where it stands
    agents,     \* the start_scraping tasks it created, in creation order
    managers,   \* per start_scraping call: its CrawlManager and RetryQueue
    call,       \* a function called on its own: which one, with what arguments
    ret         \* where that call stands, and what it returned

\* the state of one ThrottleController and its callers
tvars == <<controller, callers, stamped>>

\* the state of launch_agents and its agents
avars == <<launch, agents, managers>>

\* the state of a function called on its own
xvars == <<call, ret>>

\* no function is called on its own
CallIdle ==
    /\ call = [f |-> "none"]
    /\ ret = [pc |-> "none"]

vars == <<cfg, queues, visited, retryq, sem, tasks, main, idx, pending,
          mainTimer, age, lastGap, admitted, served, tvars, avars, xvars>>

\* launch_agents is not under study
AgentsIdle ==
    /\ launch = [pc |-> "none"]
    /\ agents = <<>>
    /\ managers = <<>>

\* no ThrottleController is under study
ThrottleIdle ==
    /\ controller = [delay |-> 1, domain_timestamps |-> <<>>]
    /\ callers = <<>>
    /\ stamped = <<>>

(***************************************************************************)
(* CrawlManager                                                            *)
(***************************************************************************)
\* `kw in path`: the keyword occurs in the path
KeywordIn(kw, path) == \E i \in 1..Len(path) : path[i] = kw

RECURSIVE Matches(_, _)
Matches(kws, path) ==
    IF kws = <<>> THEN 0
    ELSE (IF KeywordIn(Head(kws), path) THEN 1 ELSE 0) + Matches(Tail(kws), path)

score_url(url, config) ==
    BaseScore - ScoreStep * Matches(config.boost_keywords, url.path)
              + ScoreStep * Matches(config.penalty_keywords, url.path)

\* A heap is kept as the sorted sequence of its entries: heappush inserts,
\* heappop takes the least entry, which is the head.
heappush(heap, e) ==
    LET k == Cardinality({i \in 1..Len(heap) : ~EntryLess(e, heap[i])})
    IN SubSeq(heap, 1, k) \o <<e>> \o SubSeq(heap, k + 1, Len(heap))

\* the position of a domain among the keys of queues, 0 when it is no key
KeyIndex(qs, d) ==
    IF \E i \in 1..Len(qs) : qs[i].domain = d
    THEN CHOOSE i \in 1..Len(qs) : qs[i].domain = d
    ELSE 0

\* self.queues[domain] of the defaultdict: a missing key is created, last
Touch(qs, d) == IF KeyIndex(qs, d) = 0 THEN Append(qs, [domain |-> d, heap |-> <<>>]) ELSE qs

SkipsNoLedger(vis, url, depth, max_depth) == depth > max_depth

\* the guard of add_url: the URL is skipped
Skips(vis, url, depth, max_depth) == url \in vis \/ depth > max_depth

add_urlUnguarded(cm, url, depth, config) ==
    LET qs == Touch(cm.queues, url.netloc)
        k == KeyIndex(qs, url.netloc)
    IN [queues |-> [qs EXCEPT ![k].heap = heappush(qs[k].heap, <<score_url(url, config), url, depth>>)],
        visited |-> cm.visited \cup {url},
        admitted |-> Append(cm.admitted, [url |-> url, depth |-> depth])]

add_urlUnledgered(cm, url, depth, config) ==
    IF Skips(cm.visited, url, depth, config.max_depth) THEN cm
    ELSE [add_urlUnguarded(cm, url, depth, config) EXCEPT !.visited = cm.visited]

\* an add_url that records in visited the URL it rejects
add_urlMarksRejected(cm, url, depth, config) ==
    IF Skips(cm.visited, url, depth, config.max_depth)
    THEN [cm EXCEPT !.visited = @ \cup {url}]
    ELSE add_urlUnguarded(cm, url, depth, config)

\* add_url on the manager cm = [queues, visited, admitted]
add_url(cm, url, depth, config) ==
    IF Skips(cm.visited, url, depth, config.max_depth) THEN cm
    ELSE LET domain == url.netloc
             score == score_url(url, config)
             qs == Touch(cm.queues, domain)
             k == KeyIndex(qs, domain)
         IN [queues |-> [qs EXCEPT ![k].heap = heappush(qs[k].heap, <<score, url, depth>>)],
             visited |-> cm.visited \cup {url},
             admitted |-> Append(cm.admitted, [url |-> url, depth |-> depth])]

FirstDomainOnly(qs) == IF qs # <<>> /\ qs[1].heap # <<>> THEN 1 ELSE 0

\* the first domain, in key order, whose heap is not empty (0: none)
FirstNonEmpty(qs) ==
    IF \E i \in 1..Len(qs) : qs[i].heap # <<>>
    THEN CHOOSE i \in 1..Len(qs) :
            /\ qs[i].heap # <<>>
            /\ \A j \in 1..(i - 1) : qs[j].heap = <<>>
    ELSE 0

\* get_next_url: [found, url, depth, queues]
get_next_url(qs) ==
    LET k == FirstNonEmpty(qs)
    IN IF k = 0 THEN [found |-> FALSE, queues |-> qs]
       ELSE [found |-> TRUE, url |-> Head(qs[k].heap)[2], depth |-> Head(qs[k].heap)[3],
             queues |-> [qs EXCEPT ![k].heap = Tail(qs[k].heap)]]

(***************************************************************************)
(* RetryQueue                                                              *)
(***************************************************************************)
RetryAddNoLimit(q, url, depth, attempt, max_retries) == Append(q, <<url, depth, attempt>>)

\* an add that stores nothing
RetryAddNone(q, url, depth, attempt, max_retries) == q

\* an add that stores the item twice
RetryAddTwice(q, url, depth, attempt, max_retries) ==
    IF attempt <= max_retries
    THEN q \o << <<url, depth, attempt>>, <<url, depth, attempt>> >>
    ELSE q

\* add: the item is stored while its attempt is within max_retries
RetryAdd(q, url, depth, attempt, max_retries) ==
    IF attempt <= max_retries THEN Append(q, <<url, depth, attempt>>) ELSE q

BackoffNone(attempt) == 0

\* the sleep of next() for the item it popped
BackoffSleep(attempt) == Pow(Backoff, attempt - 1)

(***************************************************************************)
(* ThrottleController                                                      *)
(***************************************************************************)
\* a throttle() that never sleeps
ThrottleNoSleep(stamps, domain, delay) == 0

\* throttle(url) on a controller whose domain_timestamps is stamps (domain ->
\* seconds since the stamp): the seconds it sleeps before it stamps
ThrottleSleep(stamps, domain, delay) ==
    LET elapsed == IF domain \in DOMAIN stamps THEN stamps[domain] ELSE Epoch
    IN IF elapsed < delay THEN delay - elapsed ELSE 0

(***************************************************************************)
(* The session: start_scraping and its process_url tasks.                  *)
(***************************************************************************)
NoItem == <<>>

\* A process_url execution.  sinceAdd and waited are the clock readings of
\* the log: the seconds since the execution's retry_mgr.add call (-1: no
\* call), and, for a retry, the seconds between the add call of its item
\* and the return of retry_mgr.next (-1: a first execution).  stages is
\* the order of the calls it made after expand_content.
Task(url, depth, attempt) ==
    [url |-> url, depth |-> depth, attempt |-> attempt, pc |-> "created",
     timer |-> 0, html |-> "none", reported |-> FALSE, failed |-> FALSE,
     sinceAdd |-> -1, waited |-> -1, stages |-> <<>>]

\* the execution whose add call stored the item <<url, depth, attempt>>
AdderOf(url, attempt) ==
    CHOOSE i \in 1..Len(tasks) : tasks[i].url = url /\ tasks[i].attempt = attempt - 1

\* the item of execution i has been handed back by next()
HandedBack(i) ==
    \E j \in 1..Len(tasks) : tasks[j].url = tasks[i].url /\ tasks[j].attempt = tasks[i].attempt + 1

\* readings of the clock are kept up to the longest backoff of the session
SinceCap == Pow(Backoff, cfg.max_retries - 1)

Init ==
    /\ cfg \in Configs
    /\ queues = <<>>
    /\ visited = {}
    /\ retryq = <<>>
    /\ sem = CONCURRENT_TASKS
    /\ tasks = <<>>
    /\ main = "start"
    /\ idx = 0
    /\ pending = NoItem
    /\ mainTimer = 0
    /\ age = [d \in Netlocs |-> -1]
    /\ lastGap = [d \in Netlocs |-> -1]
    /\ admitted = <<>>
    /\ served = <<>>
    /\ ThrottleIdle
    /\ AgentsIdle
    /\ CallIdle

\* start_scraping is suspended in an await: its tasks can run
Awaiting == main \in {"gather1", "backoff", "gather2"}

InFlight == {i \in 1..Len(tasks) : tasks[i].pc \in {"fetching", "expanding"}}

\* start_scraping up to its check of the targets
Start ==
    /\ main = "start"
    /\ main' = IF cfg.targets = <<>> THEN "returned" ELSE "seeding"
    /\ UNCHANGED <<tvars, avars, xvars, cfg, queues, visited, retryq, sem, tasks, idx, pending,
                   mainTimer, age, lastGap, admitted, served>>

\* one turn of `for url in targets: crawl_mgr.add_url(url, depth=0, ...)`
Seed ==
    /\ main = "seeding"
    /\ LET cm == add_url([queues |-> queues, visited |-> visited, admitted |-> admitted],
                         cfg.targets[idx + 1], 0, cfg)
       IN /\ queues' = cm.queues
          /\ visited' = cm.visited
          /\ admitted' = cm.admitted
    /\ idx' = idx + 1
    /\ main' = IF idx + 1 = Len(cfg.targets) THEN "loop1" ELSE "seeding"
    /\ UNCHANGED <<tvars, avars, xvars, cfg, retryq, sem, tasks, pending, mainTimer, age, lastGap, served>>

\* one turn of the first `while True`: get_next_url, then create_task or break
Dequeue ==
    /\ main = "loop1"
    /\ LET r == get_next_url(queues)
       IN IF r.found
          THEN /\ queues' = r.queues
               /\ tasks' = Append(tasks, Task(r.url, r.depth, 1))
               /\ served' = Append(served,
                      [domain |-> r.url.netloc, url |-> r.url,
                       waiting |-> {queues[i].domain : i \in {j \in 1..Len(queues) : queues[j].heap # <<>>}}])
               /\ main' = main
          ELSE /\ main' = "gather1"
               /\ UNCHANGED <<queues, tasks, served>>
    /\ UNCHANGED <<tvars, avars, xvars, cfg, visited, retryq, sem, idx, pending, mainTimer, age, lastGap, admitted>>

\* asyncio.gather(*tasks) raises the exception of a task in start_scraping
GatherRaise ==
    /\ main \in {"gather1", "gather2"}
    /\ \E i \in 1..Len(tasks) : tasks[i].pc = "raised"
    /\ main' = "crashed"
    /\ UNCHANGED <<tvars, avars, xvars, cfg, queues, visited, retryq, sem, tasks, idx, pending,
                   mainTimer, age, lastGap, admitted, served>>

\* the first asyncio.gather(*tasks) returns
Gather1Done ==
    /\ main = "gather1"
    /\ \A i \in 1..Len(tasks) : tasks[i].pc = "done"
    /\ main' = "retryloop"
    /\ UNCHANGED <<tvars, avars, xvars, cfg, queues, visited, retryq, sem, tasks, idx, pending,
                   mainTimer, age, lastGap, admitted, served>>

\* one turn of the second `while True` up to the sleep of retry_mgr.next()
RetryNext ==
    /\ main = "retryloop"
    /\ IF retryq = <<>>
       THEN /\ main' = "gather2"
            /\ UNCHANGED <<retryq, pending, mainTimer>>
       ELSE /\ pending' = Head(retryq)
            /\ retryq' = Tail(retryq)
            /\ mainTimer' = BackoffSleep(Head(retryq)[3])
            /\ main' = "backoff"
    /\ UNCHANGED <<tvars, avars, xvars, cfg, queues, visited, sem, tasks, idx, age, lastGap, admitted, served>>

\* retry_mgr.next() returns its item; the retry task is created
RetryWake ==
    /\ main = "backoff"
    /\ mainTimer = 0
    /\ tasks' = Append(tasks, [Task(pending[1], pending[2], pending[3])
                                  EXCEPT !.waited = tasks[AdderOf(pending[1], pending[3])].sinceAdd])
    /\ pending' = NoItem
    /\ main' = "retryloop"
    /\ UNCHANGED <<tvars, avars, xvars, cfg, queues, visited, retryq, sem, idx, mainTimer, age, lastGap,
                   admitted, served>>

\* the second asyncio.gather(*tasks) returns; reporter.finalize()
Gather2Done ==
    /\ main = "gather2"
    /\ \A i \in 1..Len(tasks) : tasks[i].pc = "done"
    /\ main' = "returned"
    /\ UNCHANGED <<tvars, avars, xvars, cfg, queues, visited, retryq, sem, tasks, idx, pending,
                   mainTimer, age, lastGap, admitted, served>>

(***************************************************************************)
(* process_url                                                             *)
(***************************************************************************)
SemaphoreAlwaysFree(v) == TRUE

\* the semaphore lets an acquirer through
SemaphoreFree(v) == v > 0

\* an exit of `async with semaphore` that keeps the permit
ReleaseLeaks(v) == v

\* the exit of `async with semaphore`, by the end of the block or by an
\* exception: the permit is given back
Release(v) == v + 1

RetryItemDeeper(url, depth, attempt) == <<url, depth + 1, attempt + 1>>

\* what the except branch hands to retry_mgr.add
RetryItem(url, depth, attempt) == <<url, depth, attempt + 1>>

\* the loop over new_links: the robots check, then add_url at depth + 1
RECURSIVE AdmitChildren(_, _, _, _)
AdmitChildren(cm, links, depth, config) ==
    IF links = <<>> THEN cm
    ELSE LET new_url == Head(links)
             skipped == config.use_robots /\ ~Truthy(is_allowed_by_robots(new_url))
         IN AdmitChildren(IF skipped THEN cm ELSE add_url(cm, new_url, depth + 1, config),
                          Tail(links), depth, config)

\* The body of the try block after expand_content, for task t on manager
\* cm: [raised, reported, cm, stages].  handle_captcha raises when the
\* snapshot directory cannot be made; extract_links raises on a malformed
\* href.  stages lists the calls made, in the order of the code.
Pipeline(t, cm, config) ==
    IF config.snapshot_dir_fails
    THEN [raised |-> TRUE, reported |-> FALSE, cm |-> cm,
          stages |-> <<"handle_captcha">>]
    ELSE IF t.html = "ok" /\ ExtractRaises(t.url)
    THEN [raised |-> TRUE, reported |-> TRUE, cm |-> cm,
          stages |-> <<"handle_captcha", "generate_report", "extract_links">>]
    ELSE LET new_links == IF t.html = "ok" THEN PageLinks(t.url) ELSE <<>>
         IN [raised |-> FALSE, reported |-> TRUE,
             cm |-> IF t.depth < config.max_depth
                    THEN AdmitChildren(cm, new_links, t.depth, config)
                    ELSE cm,
             stages |-> <<"handle_captcha", "generate_report", "extract_links">>
                        \o (IF t.depth < config.max_depth /\ new_links # <<>>
                            THEN <<"add_url">> ELSE <<>>)]

\* `async with semaphore` entered: fetch_page is called
EnterFetch(i) ==
    LET d == tasks[i].url.netloc
    IN /\ sem' = sem - 1
       /\ tasks' = [tasks EXCEPT ![i].pc = "fetching"]
       /\ lastGap' = [lastGap EXCEPT ![d] = age[d]]
       /\ age' = [age EXCEPT ![d] = 0]

\* A created task runs to its first suspension: a new ThrottleController,
\* throttle(url), then asyncio.sleep(request_delay).  Tasks start in the
\* order of their creation.  A request_delay that is no number makes
\* `elapsed < self.delay` raise, outside the try block.
StartTask(i) ==
    /\ Awaiting
    /\ tasks[i].pc = "created"
    /\ \A j \in 1..(i - 1) : tasks[j].pc # "created"
    /\ tasks' = IF cfg.delay_is_number
                THEN [tasks EXCEPT ![i].pc = "sleeping",
                                   ![i].timer = ThrottleSleep(<<>>, tasks[i].url.netloc, cfg.request_delay)
                                                + cfg.request_delay]
                ELSE [tasks EXCEPT ![i].pc = "raised"]
    /\ UNCHANGED <<tvars, avars, xvars, cfg, queues, visited, retryq, sem, main, idx, pending, mainTimer,
                   age, lastGap, admitted, served>>

\* the sleep is over: `async with semaphore`
WakeTask(i) ==
    /\ Awaiting
    /\ tasks[i].pc = "sleeping"
    /\ tasks[i].timer = 0
    /\ IF SemaphoreFree(sem)
       THEN EnterFetch(i)
       ELSE /\ tasks' = [tasks EXCEPT ![i].pc = "waitsem"]
            /\ UNCHANGED <<sem, age, lastGap>>
    /\ UNCHANGED <<tvars, avars, xvars, cfg, queues, visited, retryq, main, idx, pending, mainTimer,
                   admitted, served>>

\* a waiter of the semaphore gets it
AcquireTask(i) ==
    /\ Awaiting
    /\ tasks[i].pc = "waitsem"
    /\ SemaphoreFree(sem)
    /\ EnterFetch(i)
    /\ UNCHANGED <<tvars, avars, xvars, cfg, queues, visited, retryq, main, idx, pending, mainTimer,
                   admitted, served>>

\* fetch_page returns; expand_content is awaited
FetchDone(i) ==
    /\ Awaiting
    /\ tasks[i].pc = "fetching"
    /\ \E o \in FetchOutcomes(tasks[i].url) :
          tasks' = [tasks EXCEPT ![i].pc = "expanding", ![i].html = o]
    /\ UNCHANGED <<tvars, avars, xvars, cfg, queues, visited, retryq, sem, main, idx, pending, mainTimer,
                   age, lastGap, admitted, served>>

\* expand_content returns: the rest of the try block, the except branch if
\* it raised, and the release of the semaphore
FinishTask(i) ==
    /\ Awaiting
    /\ tasks[i].pc = "expanding"
    /\ LET t == tasks[i]
           r == Pipeline(t, [queues |-> queues, visited |-> visited, admitted |-> admitted], cfg)
           item == RetryItem(t.url, t.depth, t.attempt)
       IN /\ queues' = r.cm.queues
          /\ visited' = r.cm.visited
          /\ admitted' = r.cm.admitted
          /\ retryq' = IF r.raised
                       THEN RetryAdd(retryq, item[1], item[2], item[3], cfg.max_retries)
                       ELSE retryq
          /\ tasks' = [tasks EXCEPT ![i].pc = "done", ![i].reported = r.reported,
                                    ![i].failed = r.raised,
                                    ![i].sinceAdd = IF r.raised THEN 0 ELSE -1,
                                    ![i].stages = r.stages]
    /\ sem' = Release(sem)
    /\ UNCHANGED <<tvars, avars, xvars, cfg, main, idx, pending, mainTimer, age, lastGap, served>>

(***************************************************************************)
(* Time.  A tick passes only when nothing is ready to run: the event loop  *)
(* runs what is ready in far less than a second.                           *)
(***************************************************************************)
AgeCap == cfg.request_delay + 1

Ready ==
    \/ \E i \in 1..Len(tasks) :
          \/ tasks[i].pc = "created"
          \/ tasks[i].pc = "sleeping" /\ tasks[i].timer = 0
          \/ tasks[i].pc = "waitsem" /\ SemaphoreFree(sem)
    \/ main = "backoff" /\ mainTimer = 0

Waiting ==
    \/ \E i \in 1..Len(tasks) : tasks[i].pc \in {"sleeping", "waitsem", "fetching", "expanding"}
    \/ main = "backoff"

Tick ==
    /\ Awaiting
    /\ ~Ready
    /\ Waiting
    /\ tasks' = [i \in 1..Len(tasks) |->
                   [tasks[i] EXCEPT
                       !.timer = IF @ > 0 THEN @ - 1 ELSE @,
                       !.sinceAdd = IF @ = -1 \/ @ >= SinceCap \/ HandedBack(i) THEN @ ELSE @ + 1]]
    /\ mainTimer' = IF mainTimer > 0 THEN mainTimer - 1 ELSE 0
    /\ age' = [d \in Netlocs |-> IF age[d] = -1 \/ age[d] >= AgeCap THEN age[d] ELSE age[d] + 1]
    /\ UNCHANGED <<tvars, avars, xvars, cfg, queues, visited, retryq, sem, main, idx, pending, lastGap,
                   admitted, served>>

Next ==
    \/ Start
    \/ Seed
    \/ Dequeue
    \/ GatherRaise
    \/ Gather1Done
    \/ RetryNext
    \/ RetryWake
    \/ Gather2Done
    \/ \E i \in 1..Len(tasks) : StartTask(i)
    \/ \E i \in 1..Len(tasks) : WakeTask(i)
    \/ \E i \in 1..Len(tasks) : AcquireTask(i)
    \/ \E i \in 1..Len(tasks) : FetchDone(i)
    \/ \E i \in 1..Len(tasks) : FinishTask(i)
    \/ Tick

Spec == Init /\ [][Next]_vars

(***************************************************************************)
(* One ThrottleController shared by several callers of throttle().         *)
(***************************************************************************)
\* no session is under study
SessionIdle ==
    /\ cfg = Config(<<>>, 0, 1, FALSE, TRUE, FALSE)
    /\ queues = <<>>
    /\ visited = {}
    /\ retryq = <<>>
    /\ sem = CONCURRENT_TASKS
    /\ tasks = <<>>
    /\ main = "returned"
    /\ idx = 0
    /\ pending = NoItem
    /\ mainTimer = 0
    /\ age = [d \in Netlocs |-> -1]
    /\ lastGap = [d \in Netlocs |-> -1]
    /\ admitted = <<>>
    /\ served = <<>>

svars == <<cfg, queues, visited, retryq, sem, tasks, main, idx, pending,
           mainTimer, age, lastGap, admitted, served>>

\* the URLs throttle() is called with
ThrottleUrls == {A0, Ax, B0}

\* a call of throttle(): arrival is its rank among the calls made
Caller ==
    [pc |-> "idle", domain |-> "", timer |-> 0, arrival |-> 0]

ThrottleInit ==
    /\ SessionIdle
    /\ AgentsIdle
    /\ CallIdle
    /\ \E delay \in 1..MaxDelay : controller = [delay |-> delay, domain_timestamps |-> <<>>]
    /\ callers = [c \in 1..NumCallers |-> Caller]
    /\ stamped = <<>>

\* self.domain_timestamps[domain] = time.time(): the stamp is 0 seconds old
SetStamp(stamps, domain) ==
    [d \in DOMAIN stamps \cup {domain} |-> IF d = domain THEN 0 ELSE stamps[d]]

\* the entry of the log for a write: gap is the age of the stamp it
\* replaces (-1: the domain had none), calls the number of calls made before
\* the write, waited whether the call slept before it
StampEntry(c, domain) ==
    [caller |-> c, domain |-> domain,
     gap |-> IF domain \in DOMAIN controller.domain_timestamps
             THEN controller.domain_timestamps[domain] ELSE -1,
     calls |-> Cardinality({k \in 1..NumCallers : callers[k].pc # "idle"}),
     waited |-> callers[c].pc = "sleeping"]

\* throttle(url) up to its first suspension: without a sleep it runs to its
\* end, the write included
ThrottleCall(c, url) ==
    /\ callers[c].pc = "idle"
    /\ LET domain == url.netloc
           sleep_time == ThrottleSleep(controller.domain_timestamps, domain, controller.delay)
           n == Cardinality({k \in 1..NumCallers : callers[k].pc # "idle"}) + 1
       IN IF sleep_time > 0
          THEN /\ callers' = [callers EXCEPT ![c] = [pc |-> "sleeping", domain |-> domain,
                                                     timer |-> sleep_time, arrival |-> n]]
               /\ UNCHANGED <<controller, stamped>>
          ELSE /\ callers' = [callers EXCEPT ![c] = [pc |-> "done", domain |-> domain,
                                                     timer |-> 0, arrival |-> n]]
               /\ controller' = [controller EXCEPT !.domain_timestamps = SetStamp(@, domain)]
               /\ stamped' = Append(stamped, StampEntry(c, domain))
    /\ UNCHANGED <<svars, avars, xvars>>

\* asyncio.sleep(sleep_time) is over: the write of the stamp
ThrottleWake(c) ==
    /\ callers[c].pc = "sleeping"
    /\ callers[c].timer = 0
    /\ callers' = [callers EXCEPT ![c].pc = "done"]
    /\ controller' = [controller EXCEPT !.domain_timestamps = SetStamp(@, callers[c].domain)]
    /\ stamped' = Append(stamped, StampEntry(c, callers[c].domain))
    /\ UNCHANGED <<svars, avars, xvars>>

\* a second passes while no sleeper is due; stamps older than the delay
\* all count the same
ThrottleTick ==
    /\ \E c \in 1..NumCallers : callers[c].pc # "done"
    /\ \A c \in 1..NumCallers : ~(callers[c].pc = "sleeping" /\ callers[c].timer = 0)
    /\ callers' = [c \in 1..NumCallers |->
                     [callers[c] EXCEPT !.timer = IF @ > 0 THEN @ - 1 ELSE @]]
    /\ controller' = [controller EXCEPT !.domain_timestamps =
                         [d \in DOMAIN @ |-> IF @[d] > controller.delay THEN @[d] ELSE @[d] + 1]]
    /\ UNCHANGED <<stamped, svars, avars, xvars>>

ThrottleNext ==
    \/ \E c \in 1..NumCallers : \E url \in ThrottleUrls : ThrottleCall(c, url)
    \/ \E c \in 1..NumCallers : ThrottleWake(c)
    \/ ThrottleTick

ThrottleSpec == ThrottleInit /\ [][ThrottleNext]_vars

(***************************************************************************)
(* launch_agents and the start_scraping tasks it creates.  A session is    *)
(* followed here from await to await of start_scraping and by whole        *)
(* process_url executions; the clock is left out.                          *)
(***************************************************************************)
\* a seed urlparse cannot parse: `http://[::1`
Mal == Url("http", "[::1", <<>>)

\* urlparse(url) raises ValueError
ParseRaises(url) == url = Mal

LaunchTargets ==
    {<<A0, Abad, B0>>, <<A0, B0, A0, Bbad, H0>>, <<Mal, A0, B0, Ax>>, <<A0, Adown, Ax, Mal>>, <<>>}

LaunchInputs ==
    {[targets |-> t, num_agents |-> n, config |-> Config(t, 1, 2, TRUE, dn, FALSE)] :
        t \in LaunchTargets, n \in 1..MaxAgents, dn \in BOOLEAN}

AgentInit ==
    /\ SessionIdle
    /\ ThrottleIdle
    /\ CallIdle
    /\ \E in \in LaunchInputs :
          launch = [pc |-> "spawning", i |-> 0, targets |-> in.targets,
                    num_agents |-> in.num_agents, config |-> in.config]
    /\ agents = <<>>
    /\ managers = <<>>

Max(a, b) == IF a >= b THEN a ELSE b

\* chunk_size = max(1, len(targets) // num_agents)
ChunkSize(targets, num_agents) == Max(1, Len(targets) \div num_agents)

\* the positions (from 1) of targets[i * chunk_size : (i + 1) * chunk_size]
SliceIndices(targets, i, chunk_size) ==
    {k \in 1..Len(targets) : i * chunk_size < k /\ k <= (i + 1) * chunk_size}

\* the elements of targets at the positions of a slice, in order
SliceOf(targets, i, chunk_size) ==
    [k \in 1..Cardinality(SliceIndices(targets, i, chunk_size)) |-> targets[i * chunk_size + k]]

\* CrawlManager(max_depth) and RetryQueue(max_retries), as constructed
NewManager == [queues |-> <<>>, visited |-> {}, admitted |-> <<>>, retryq |-> <<>>]

ManagerShared(a) == 1

\* the CrawlManager and RetryQueue agent a works on: the ones its own
\* start_scraping call constructed
ManagerOf(a) == a

\* the start_scraping task of turn i of the loop; todo holds the
\* process_url executions created and not finished
Agent(i, targets, chunk_size) ==
    [slice |-> SliceIndices(targets, i, chunk_size),
     targets |-> SliceOf(targets, i, chunk_size),
     pc |-> "created", todo |-> <<>>]

\* one turn of `for i in range(num_agents)`
LaunchSpawn ==
    /\ launch.pc = "spawning"
    /\ launch.i < launch.num_agents
    /\ LET chunk_size == ChunkSize(launch.targets, launch.num_agents)
           agent == Agent(launch.i, launch.targets, chunk_size)
       IN IF agent.targets = <<>>
          THEN UNCHANGED <<agents, managers>>
          ELSE /\ agents' = Append(agents, agent)
               /\ managers' = Append(managers, NewManager)
    /\ launch' = [launch EXCEPT !.i = @ + 1]
    /\ UNCHANGED <<svars, tvars, xvars>>

\* the loop is over: await asyncio.gather(*tasks)
LaunchAwait ==
    /\ launch.pc = "spawning"
    /\ launch.i = launch.num_agents
    /\ launch' = [launch EXCEPT !.pc = "gather"]
    /\ UNCHANGED <<agents, managers, svars, tvars, xvars>>

\* gather returns: every task has returned
LaunchJoin ==
    /\ launch.pc = "gather"
    /\ \A a \in 1..Len(agents) : agents[a].pc = "returned"
    /\ launch' = [launch EXCEPT !.pc = "returned"]
    /\ UNCHANGED <<agents, managers, svars, tvars, xvars>>

\* gather, without return_exceptions, raises the exception of a task as
\* soon as the task has raised; the other tasks are not cancelled
LaunchRaise ==
    /\ launch.pc = "gather"
    /\ \E a \in 1..Len(agents) : agents[a].pc = "raised"
    /\ launch' = [launch EXCEPT !.pc = "raised"]
    /\ UNCHANGED <<agents, managers, svars, tvars, xvars>>

\* the tasks run once launch_agents is suspended in gather
AgentsRun == launch.pc \in {"gather", "raised"}

\* `for url in targets: crawl_mgr.add_url(url, 0, config)`: [cm, raised]
RECURSIVE SeedAll(_, _, _)
SeedAll(cm, targets, config) ==
    IF targets = <<>> THEN [cm |-> cm, raised |-> FALSE]
    ELSE IF ~Skips(cm.visited, Head(targets), 0, config.max_depth) /\ ParseRaises(Head(targets))
    THEN [cm |-> cm, raised |-> TRUE]
    ELSE SeedAll(add_url(cm, Head(targets), 0, config), Tail(targets), config)

\* the first `while True`: the items get_next_url returns until it
\* returns None, each with attempt 1
RECURSIVE DrainAll(_)
DrainAll(qs) ==
    LET r == get_next_url(qs)
    IN IF r.found THEN <<<<r.url, r.depth, 1>>>> \o DrainAll(r.queues) ELSE <<>>

\* the queues once every heap was popped empty: the keys stay
Drained(qs) == [k \in 1..Len(qs) |-> [qs[k] EXCEPT !.heap = <<>>]]

\* start_scraping up to its first await: seeds, then the dispatch loop
AgentStart(a) ==
    /\ AgentsRun
    /\ agents[a].pc = "created"
    /\ LET m == ManagerOf(a)
           r == SeedAll([queues |-> managers[m].queues, visited |-> managers[m].visited,
                         admitted |-> managers[m].admitted],
                        agents[a].targets, launch.config)
       IN IF r.raised
          THEN /\ agents' = [agents EXCEPT ![a].pc = "raised"]
               /\ managers' = [managers EXCEPT ![m].queues = r.cm.queues,
                                               ![m].visited = r.cm.visited,
                                               ![m].admitted = r.cm.admitted]
          ELSE /\ agents' = [agents EXCEPT ![a].pc = "gather1",
                                           ![a].todo = DrainAll(r.cm.queues)]
               /\ managers' = [managers EXCEPT ![m].queues = Drained(r.cm.queues),
                                               ![m].visited = r.cm.visited,
                                               ![m].admitted = r.cm.admitted]
    /\ UNCHANGED <<launch, svars, tvars, xvars>>

\* the sequence without its k-th element
Without(seq, k) == SubSeq(seq, 1, k - 1) \o SubSeq(seq, k + 1, Len(seq))

\* one process_url execution of agent a, from its start to its end
AgentExecute(a, k) ==
    /\ AgentsRun
    /\ agents[a].pc \in {"gather1", "retryloop", "gather2"}
    /\ k \in 1..Len(agents[a].todo)
    /\ LET m == ManagerOf(a)
           item == agents[a].todo[k]
       IN IF ~launch.config.delay_is_number
          THEN /\ agents' = [agents EXCEPT ![a].pc = "raised"]
               /\ UNCHANGED managers
          ELSE \E o \in FetchOutcomes(item[1]) :
                 LET t == [url |-> item[1], depth |-> item[2], attempt |-> item[3], html |-> o]
                     r == Pipeline(t, [queues |-> managers[m].queues,
                                       visited |-> managers[m].visited,
                                       admitted |-> managers[m].admitted], launch.config)
                     again == RetryItem(t.url, t.depth, t.attempt)
                 IN /\ agents' = [agents EXCEPT ![a].todo = Without(@, k)]
                    /\ managers' = [managers EXCEPT
                          ![m].queues = r.cm.queues,
                          ![m].visited = r.cm.visited,
                          ![m].admitted = r.cm.admitted,
                          ![m].retryq = IF r.raised
                                        THEN RetryAdd(@, again[1], again[2], again[3],
                                                      launch.config.max_retries)
                                        ELSE @]
    /\ UNCHANGED <<launch, svars, tvars, xvars>>

\* the first gather of agent a returns
AgentGather1Done(a) ==
    /\ AgentsRun
    /\ agents[a].pc = "gather1"
    /\ agents[a].todo = <<>>
    /\ agents' = [agents EXCEPT ![a].pc = "retryloop"]
    /\ UNCHANGED <<launch, managers, svars, tvars, xvars>>

\* one turn of the retry loop of agent a, the sleep of next() included
AgentRetryNext(a) ==
    /\ AgentsRun
    /\ agents[a].pc = "retryloop"
    /\ LET m == ManagerOf(a)
       IN IF managers[m].retryq = <<>>
          THEN /\ agents' = [agents EXCEPT ![a].pc = "gather2"]
               /\ UNCHANGED managers
          ELSE /\ agents' = [agents EXCEPT ![a].todo = Append(@, Head(managers[m].retryq))]
               /\ managers' = [managers EXCEPT ![m].retryq = Tail(@)]
    /\ UNCHANGED <<launch, svars, tvars, xvars>>

\* the second gather of agent a returns; start_scraping returns
AgentReturn(a) ==
    /\ AgentsRun
    /\ agents[a].pc = "gather2"
    /\ agents[a].todo = <<>>
    /\ agents' = [agents EXCEPT ![a].pc = "returned"]
    /\ UNCHANGED <<launch, managers, svars, tvars, xvars>>

AgentNext ==
    \/ LaunchSpawn
    \/ LaunchAwait
    \/ LaunchJoin
    \/ LaunchRaise
    \/ \E a \in 1..Len(agents) : AgentStart(a)
    \/ \E a \in 1..Len(agents) : \E k \in 1..Len(agents[a].todo) : AgentExecute(a, k)
    \/ \E a \in 1..Len(agents) : AgentGather1Done(a)
    \/ \E a \in 1..Len(agents) : AgentRetryNext(a)
    \/ \E a \in 1..Len(agents) : AgentReturn(a)

AgentSpec == AgentInit /\ [][AgentNext]_vars

(***************************************************************************)
(* with_retries: the wrapper of a coroutine function, called once.         *)
(***************************************************************************)
FetchPageUnguarded == {"value", "raise"}

\* What a call of fetch_page can do: its whole body is in a try whose
\* except branch returns {}, so it returns a value (the page dict or {}).
FetchPageOutcomes == {"value"}

\* what one invocation of the wrapped function can do
FuncOutcomes(func) ==
    IF func = "fetch_page" THEN FetchPageOutcomes ELSE {"value", "raise"}

\* the calls of a wrapper: fetch_page as it is decorated, and any other
\* function under any decoration
WrapCalls ==
    {[f |-> "with_retries", func |-> "fetch_page", max_retries |-> 3, delay |-> 1, backoff |-> 2]}
    \cup {[f |-> "with_retries", func |-> "other", max_retries |-> m, delay |-> d, backoff |-> b] :
            m \in 0..MaxWrapRetries, d \in 1..MaxWrapDelay, b \in 1..MaxWrapDelay}

\* wrapper is entered: retries = 0, current_delay = delay
WrapInit ==
    /\ SessionIdle
    /\ ThrottleIdle
    /\ AgentsIdle
    /\ call \in WrapCalls
    /\ ret = [pc |-> "loop", retries |-> 0, current_delay |-> call.delay, calls |-> 0,
              last |-> "none", value |-> "none"]

WrapLoopsOnceMore(retries, max_retries) == retries <= max_retries

\* `while retries < max_retries`
WrapLoops(retries, max_retries) == retries < max_retries

\* one turn of the loop: func is awaited; its value is returned, or its
\* exception is counted and the sleep begins
WrapInvoke ==
    /\ ret.pc = "loop"
    /\ WrapLoops(ret.retries, call.max_retries)
    /\ \E o \in FuncOutcomes(call.func) :
          ret' = IF o = "value"
                 THEN [ret EXCEPT !.pc = "returned", !.calls = @ + 1, !.last = o,
                                  !.value = "result"]
                 ELSE [ret EXCEPT !.pc = "sleeping", !.calls = @ + 1, !.last = o,
                                  !.retries = @ + 1]
    /\ UNCHANGED <<call, svars, tvars, avars>>

\* asyncio.sleep(current_delay) is over: current_delay *= backoff
WrapWake ==
    /\ ret.pc = "sleeping"
    /\ ret' = [ret EXCEPT !.pc = "loop", !.current_delay = @ * call.backoff]
    /\ UNCHANGED <<call, svars, tvars, avars>>

\* the loop is left: return None
WrapGiveUp ==
    /\ ret.pc = "loop"
    /\ ~WrapLoops(ret.retries, call.max_retries)
    /\ ret' = [ret EXCEPT !.pc = "returned", !.value = "None"]
    /\ UNCHANGED <<call, svars, tvars, avars>>

WrapNext ==
    \/ WrapInvoke
    \/ WrapWake
    \/ WrapGiveUp

WrapSpec == WrapInit /\ [][WrapNext]_vars

(***************************************************************************)
(* score_url, called once on a URL under a priority configuration.         *)
(***************************************************************************)
BoostWords == <<"docs", "api", "guide", "reference", "tutorial", "sdk">>

PenaltyWords == <<"legal", "privacy">>

\* a URL whose path holds every boost keyword
Adeep == Url("https", "a.test", BoostWords)

Alegal == Url("https", "a.test", <<"docs", "legal">>)

\* priority.boost_keywords and priority.penalty_keywords: the first words
\* of the two lists, any number of them
ScoreCalls ==
    {[f |-> "score_url", url |-> u,
      config |-> [boost_keywords |-> SubSeq(BoostWords, 1, b),
                  penalty_keywords |-> SubSeq(PenaltyWords, 1, p)]] :
        u \in {A0, Adocs, Adeep, Alegal}, b \in 0..Len(BoostWords), p \in 0..Len(PenaltyWords)}

ScoreInit ==
    /\ SessionIdle
    /\ ThrottleIdle
    /\ AgentsIdle
    /\ call \in ScoreCalls
    /\ ret = [pc |-> "called"]

\* score_url returns the score add_url pushes as the heap key
ScoreApply ==
    /\ ret.pc = "called"
    /\ ret' = [pc |-> "returned", value |-> score_url(call.url, call.config)]
    /\ UNCHANGED <<call, svars, tvars, avars>>

ScoreNext == ScoreApply

ScoreSpec == ScoreInit /\ [][ScoreNext]_vars

(***************************************************************************)
(* CrawlManager.add_url called on its own: a manager constructed with      *)
(* max_depth receives a sequence of add_url calls.                         *)
(***************************************************************************)
\* the calls made on one manager
MaxAdmitCalls == 3

\* the URLs add_url is called with
AdmitUrls == {A0, Ax, B0}

\* CrawlManager(max_depth): no queue, nothing visited
AdmitInit ==
    /\ SessionIdle
    /\ ThrottleIdle
    /\ AgentsIdle
    /\ \E d \in 0..MaxDepthCfg :
          call = [f |-> "add_url", config |-> Config(<<>>, d, 1, TRUE, TRUE, FALSE)]
    /\ ret = [pc |-> "open",
              cm |-> [queues |-> <<>>, visited |-> {}, admitted |-> <<>>],
              log |-> <<>>]

\* crawl_mgr.add_url(url, depth, config); the log keeps the manager before
\* and after the call
AdmitCall(url, depth) ==
    /\ ret.pc = "open"
    /\ Len(ret.log) < MaxAdmitCalls
    /\ LET after == add_url(ret.cm, url, depth, call.config)
       IN ret' = [ret EXCEPT !.cm = after,
                             !.log = Append(@, [url |-> url, depth |-> depth,
                                                before |-> ret.cm, after |-> after])]
    /\ UNCHANGED <<call, svars, tvars, avars>>

AdmitNext ==
    \E url \in AdmitUrls : \E depth \in 0..(call.config.max_depth + 1) : AdmitCall(url, depth)

AdmitSpec == AdmitInit /\ [][AdmitNext]_vars

(***************************************************************************)
(* The link graph of the web above.                                        *)
(***************************************************************************)
Links(u) == {PageLinks(u)[k] : k \in 1..Len(PageLinks(u))}

RECURSIVE Within(_, _)
\* the URLs reached from the set S by at most n links
Within(S, n) == IF n = 0 THEN S ELSE Within(S \cup UNION {Links(u) : u \in S}, n - 1)

Acyclic(S) ==
    \A u \in Within(S, Cardinality(Urls)) : u \notin Within(Links(u), Cardinality(Urls))

Seeds == {cfg.targets[k] : k \in 1..Len(cfg.targets)}

TasksOf(u) == {i \in 1..Len(tasks) : tasks[i].url = u}

AllHeapsEmpty == \A k \in 1..Len(queues) : queues[k].heap = <<>>

(***************************************************************************)
(* The claims.                                                             *)
(***************************************************************************)
\* C1: no URL is admitted twice: the log of add_url's pushes holds every URL
\* at most once, so its length is the size of the set of admitted URLs.
C1_NoUrlAdmittedTwice ==
    Len(admitted) = Cardinality({admitted[k].url : k \in 1..Len(admitted)})

\* C1 witness: an execution above max_depth found a link to a URL that is
\* also a seed, and finished: the URL was offered to add_url twice.
C1_Witness ==
    \E i \in 1..Len(tasks) :
        /\ tasks[i].pc = "done" /\ ~tasks[i].failed /\ tasks[i].html = "ok"
        /\ tasks[i].depth < cfg.max_depth
        /\ Links(tasks[i].url) \cap Seeds # {}

\* C2: every process_url execution, first attempt or retry, has
\* depth <= max_depth.
C2_DispatchedWithinDepth ==
    \A i \in 1..Len(tasks) : tasks[i].depth <= cfg.max_depth

\* C2 witness: a retry execution has started its fetch.
C2_Witness ==
    \E i \in 1..Len(tasks) : tasks[i].attempt > 1 /\ tasks[i].pc = "fetching"

\* C3: two consecutive fetch starts for one domain are at least
\* request_delay apart.
C3_MinDomainInterval ==
    \A d \in Netlocs : lastGap[d] = -1 \/ lastGap[d] >= cfg.request_delay

\* C4: a session without failures over an acyclic link graph returns with
\* nothing in flight, every domain queue empty and the retry queue empty.
C4_Quiescence ==
    ( /\ main = "returned"
      /\ Acyclic(Seeds)
      /\ \A i \in 1..Len(tasks) : ~tasks[i].failed /\ tasks[i].html = "ok" )
    => (InFlight = {} /\ AllHeapsEmpty /\ retryq = <<>>)

\* C5: when the session has returned, a URL whose every execution failed
\* was retried exactly max_retries times.
C5_RetryExhaustion ==
    main = "returned" =>
        \A u \in Urls :
            (TasksOf(u) # {} /\ \A i \in TasksOf(u) : tasks[i].failed)
            => Cardinality({i \in TasksOf(u) : tasks[i].attempt > 1}) = cfg.max_retries

\* C6: with seeds of equal priority, get_next_url does not return a second
\* item of a domain while another domain that was waiting is still unserved.
C6_Fairness ==
    (\A u, v \in Seeds : score_url(u, cfg) = score_url(v, cfg)) =>
        \A i, j \in 1..Len(served) :
            (i < j /\ served[i].domain = served[j].domain) =>
                \A d \in served[i].waiting \ {served[i].domain} :
                    \E k \in (i + 1)..(j - 1) : served[k].domain = d

\* C7: the executions inside the section guarded by the semaphore never
\* number more than CONCURRENT_TASKS.
C7_InFlightWithinCap == Cardinality(InFlight) <= CONCURRENT_TASKS

\* C7 witness: the cap is reached while another execution waits for a permit.
C7_Witness ==
    /\ Cardinality(InFlight) = CONCURRENT_TASKS
    /\ \E i \in 1..Len(tasks) : tasks[i].pc = "waitsem"

\* C8: an execution whose fetch failed submitted a retry and reported no
\* page record.
C8_FetchFailureRetried ==
    \A i \in 1..Len(tasks) :
        (tasks[i].pc = "done" /\ tasks[i].html = "empty")
        => (tasks[i].failed /\ ~tasks[i].reported)

\* C9: no exception leaves a process_url execution, and none aborts
\* start_scraping.
C9_NoExceptionEscapes ==
    /\ main # "crashed"
    /\ \A i \in 1..Len(tasks) : tasks[i].pc # "raised"

\* C10: with use_robots on, no child URL that robots.txt disallows is
\* admitted (children are the admissions at depth >= 1).
C10_RobotsRespected ==
    cfg.use_robots =>
        \A k \in 1..Len(admitted) :
            admitted[k].depth > 0 => ~RobotsDisallows(admitted[k].url)

\* the position of a URL in the log of admissions (0: never admitted)
AdmissionIndex(u) ==
    IF \E k \in 1..Len(admitted) : admitted[k].url = u
    THEN CHOOSE k \in 1..Len(admitted) : admitted[k].url = u
    ELSE 0

\* C11: start_scraping ends by returning: a session that is over is not
\* over because an exception left start_scraping.
C11_EndsByReturning == main \in {"returned", "crashed"} => main = "returned"

\* C12: when start_scraping has returned from a session with failed
\* executions, the retry queue and the domain queues are empty and nothing
\* is in flight.
C12_RetriesDrained ==
    (main = "returned" /\ \E i \in 1..Len(tasks) : tasks[i].failed)
    => (retryq = <<>> /\ AllHeapsEmpty /\ InFlight = {})

\* C13: two items get_next_url returned from one domain came in priority
\* order (lower score first), and in admission order when their scores are
\* equal.
C13_PriorityThenAdmissionOrder ==
    \A i, j \in 1..Len(served) :
        (i < j /\ served[i].domain = served[j].domain) =>
            /\ score_url(served[i].url, cfg) <= score_url(served[j].url, cfg)
            /\ score_url(served[i].url, cfg) = score_url(served[j].url, cfg)
                => AdmissionIndex(served[i].url) < AdmissionIndex(served[j].url)

C19_RejectedAdmissionNoEffect ==
    \A u \in Urls : \A d \in 0..(cfg.max_depth + 1) :
        (u \in visited \/ d > cfg.max_depth) =>
            LET cm == add_url([queues |-> queues, visited |-> visited, admitted |-> admitted],
                              u, d, cfg)
            IN cm.queues = queues /\ cm.visited = visited

\* the seeding loop has rejected a seed: fewer admissions than add_url calls
C19_Witness == main = "loop1" /\ 0 < Len(admitted) /\ Len(admitted) < idx

\* C20: in every state of the session, get_next_url finds nothing exactly
\* when every domain queue is empty; when it finds an item, the queues it
\* leaves are the queues before with that one entry taken out of one heap,
\* and when it finds none it leaves the queues as they are.
C20_NextUrlEmptyOnlyWhenAllEmpty ==
    LET r == get_next_url(queues)
    IN /\ r.found <=> ~AllHeapsEmpty
       /\ ~r.found => r.queues = queues
       /\ r.found =>
             \E k \in 1..Len(queues) : \E p \in 1..Len(queues[k].heap) :
                 LET h == queues[k].heap
                 IN /\ h[p][2] = r.url
                    /\ h[p][3] = r.depth
                    /\ r.queues = [queues EXCEPT ![k].heap =
                                      SubSeq(h, 1, p - 1) \o SubSeq(h, p + 1, Len(h))]

\* get_next_url has served the first domain's heap empty while another
\* domain still has entries
C20_Witness ==
    /\ main = "loop1"
    /\ served # <<>>
    /\ queues[1].heap = <<>>
    /\ ~AllHeapsEmpty

\* C18: every retry execution was created, at the return of
\* RetryQueue.next, at least backoff^(attempt-1) seconds after its item was
\* added to the retry queue.
C18_NotBeforeBackoff ==
    \A i \in 1..Len(tasks) :
        tasks[i].attempt > 1 => tasks[i].waited >= Pow(Backoff, tasks[i].attempt - 1)

\* a retry was handed back exactly at its not-before time
C18_Witness ==
    \E i \in 1..Len(tasks) :
        tasks[i].attempt > 1 /\ tasks[i].waited = Pow(Backoff, tasks[i].attempt - 1)

\* C16: on one ThrottleController, every write of a domain's stamp comes at
\* least the delay after the write it replaces, and the writes of a domain
\* come in the order in which their calls arrived.
C16_OverlappingCallsSerialized ==
    /\ \A k \in 1..Len(stamped) :
          stamped[k].gap = -1 \/ stamped[k].gap >= controller.delay
    /\ \A i, j \in 1..Len(stamped) :
          (i < j /\ stamped[i].domain = stamped[j].domain)
          => callers[stamped[i].caller].arrival < callers[stamped[j].caller].arrival

\* C14: the slices of two agents share no position of the seed list, and an
\* agent's ledger, queues and retry queue change only in that agent's own
\* steps.
C14_AgentsIsolated ==
    /\ [](\A a, b \in 1..Len(agents) : a # b => agents[a].slice \cap agents[b].slice = {})
    /\ [][\A a \in 1..Len(agents) :
              agents'[a] = agents[a] => managers'[ManagerOf(a)] = managers[ManagerOf(a)]]_vars

\* two agents have both filled their ledgers
C14_Witness ==
    \E a, b \in 1..Len(agents) :
        /\ a # b
        /\ managers[ManagerOf(a)].visited # {}
        /\ managers[ManagerOf(b)].visited # {}
        /\ managers[ManagerOf(a)].retryq # <<>>

\* C15: when launch_agents is over, by a return or by an exception,
\* every start_scraping task it created is over.
C15_JoinWaitsForAll ==
    launch.pc \in {"returned", "raised"}
    => \A a \in 1..Len(agents) : agents[a].pc \in {"returned", "raised"}

\* the URLs get_next_url has returned
ServedUrls == {served[k].url : k \in 1..Len(served)}

\* C21: a URL that get_next_url has returned is in no domain queue again
\* and is returned once only; the executions with attempt 1 are exactly the
\* items get_next_url returned, every other execution has its item from
\* the retry queue.
C21_PoppedNeverRequeued ==
    /\ \A k \in 1..Len(queues) : \A p \in 1..Len(queues[k].heap) :
          queues[k].heap[p][2] \notin ServedUrls
    /\ \A i, j \in 1..Len(served) : i < j => served[i].url # served[j].url
    /\ Cardinality({i \in 1..Len(tasks) : tasks[i].attempt = 1}) = Len(served)

\* a finished execution has offered add_url a link to a URL that
\* get_next_url had returned before
C21_Witness ==
    \E i \in 1..Len(tasks) :
        /\ tasks[i].pc = "done"
        /\ tasks[i].html = "ok"
        /\ ~tasks[i].failed
        /\ tasks[i].depth < cfg.max_depth
        /\ Links(tasks[i].url) \cap ServedUrls # {}

\* the backoff of a retry item has elapsed since its add call
ItemReady(item) ==
    tasks[AdderOf(item[1], item[3])].sinceAdd >= Pow(Backoff, item[3] - 1)

\* C22: RetryQueue.next does not keep its caller asleep while an item
\* behind the popped one is ready (its backoff has elapsed since it was
\* added).
C22_ReadyItemNotDelayed ==
    (main = "backoff" /\ mainTimer > 0)
    => \A k \in 1..Len(retryq) : ~ItemReady(retryq[k])

\* the executions that have begun to run and have not ended
Started ==
    {i \in 1..Len(tasks) : tasks[i].pc \in {"sleeping", "waitsem", "fetching", "expanding"}}

\* C23: at no time are more than CONCURRENT_TASKS dequeued items
\* executions that have started and not finished.
C23_StartedWithinCap == Cardinality(Started) <= CONCURRENT_TASKS

\* the place of a call in the order of an execution's calls (0: not made)
StageIndex(stages, name) ==
    IF \E k \in 1..Len(stages) : stages[k] = name
    THEN CHOOSE k \in 1..Len(stages) : stages[k] = name
    ELSE 0

\* C24: in an execution that succeeded, generate_report comes after
\* extract_links and after the add_url calls for the children.
C24_ReportIsLast ==
    \A i \in 1..Len(tasks) :
        (tasks[i].pc = "done" /\ ~tasks[i].failed) =>
            /\ StageIndex(tasks[i].stages, "generate_report")
                 > StageIndex(tasks[i].stages, "extract_links")
            /\ StageIndex(tasks[i].stages, "generate_report")
                 > StageIndex(tasks[i].stages, "add_url")

C30_WithRetriesBounded ==
    /\ ret.calls <= call.max_retries
    /\ ret.last = "value" => (ret.pc = "returned" /\ ret.value = "result")
    /\ (ret.pc = "returned" /\ ret.last # "value")
         => (ret.value = "None" /\ ret.calls = call.max_retries /\ ret.retries = ret.calls)
    /\ ret.pc \in {"loop", "sleeping", "returned"}

\* every one of several invocations raised and the wrapper returned None
C30_Witness ==
    ret.pc = "returned" /\ ret.value = "None" /\ ret.calls = call.max_retries /\ ret.calls >= 2

\* C26: handle_captcha stops no execution: an execution whose link
\* extraction does not raise reports its page, makes its add_url calls and
\* submits no retry.
C26_CaptchaObservationalOnly ==
    \A i \in 1..Len(tasks) :
        (tasks[i].pc = "done" /\ ~(tasks[i].html = "ok" /\ ExtractRaises(tasks[i].url)))
        => /\ tasks[i].reported
           /\ ~tasks[i].failed
           /\ StageIndex(tasks[i].stages, "extract_links") > 0

\* C27: the score score_url returns, which add_url uses as the heap key,
\* is never below 0.
C27_ScoreNonNegative == ret.pc = "returned" => ret.value >= 0

\* C28: two admitted URLs of different schemes were put in different
\* domain queues.
C28_SchemeInDomainKey ==
    \A i, j \in 1..Len(admitted) :
        admitted[i].url.scheme # admitted[j].url.scheme
        => KeyIndex(queues, admitted[i].url.netloc) # KeyIndex(queues, admitted[j].url.netloc)

\* the entries of all domain queues, each with its place
QueueEntries ==
    UNION {{<<k, p>> : p \in 1..Len(queues[k].heap)} : k \in 1..Len(queues)}

PrevStamp(k) ==
    LET before == {j \in 1..(k - 1) : stamped[j].domain = stamped[k].domain}
    IN IF before = {} THEN 0 ELSE CHOOSE j \in before : \A i \in before : i <= j

\* the call of the k-th write began after the write before it for the same
\* domain: the two calls do not overlap
AfterPrevious(k) ==
    /\ PrevStamp(k) > 0
    /\ stamped[PrevStamp(k)].calls < callers[stamped[k].caller].arrival

\* C31: on one ThrottleController, a throttle() call that begins after the
\* previous call for its domain has recorded its timestamp records its own no
\* earlier than the configured delay after that timestamp, and a call for a
\* domain with no timestamp does not wait: it is never found sleeping and its
\* write is made without a sleep.
C31_NonOverlappingRateLimited ==
    /\ \A k \in 1..Len(stamped) :
          AfterPrevious(k) => stamped[k].gap >= controller.delay
    /\ \A k \in 1..Len(stamped) :
          PrevStamp(k) = 0 => (stamped[k].gap = -1 /\ ~stamped[k].waited)
    /\ \A c \in 1..NumCallers :
          callers[c].pc = "sleeping"
          => callers[c].domain \in DOMAIN controller.domain_timestamps

\* a call that began after the previous one for its domain had returned and
\* less than the delay after it: it slept and wrote its stamp; another call
\* was the first for its domain
C31_Witness ==
    /\ \E k \in 1..Len(stamped) :
          AfterPrevious(k) /\ stamped[k].waited /\ stamped[k].gap = controller.delay
    /\ \E k \in 1..Len(stamped) : PrevStamp(k) = 0 /\ stamped[k].gap = -1

\* the (url, attempt) pairs of the session: of the executions, of the entries
\* of the retry queue and of the item next() holds during its sleep
ExecutedPairs == [i \in 1..Len(tasks) |-> <<tasks[i].url, tasks[i].attempt>>]

StoredPairs ==
    [k \in 1..Len(retryq) |-> <<retryq[k][1], retryq[k][3]>>]
    \o (IF pending = NoItem THEN <<>> ELSE << <<pending[1], pending[3]>> >>)

Distinct(seq) == Cardinality({seq[k] : k \in 1..Len(seq)}) = Len(seq)

AdmittedDepth(u) == admitted[AdmissionIndex(u)].depth

\* C33: a retry keeps the depth of its item: every entry of the retry queue,
\* the item next() holds during its sleep and every retry execution carry
\* the depth at which their URL was admitted.
C33_RetryKeepsDepth ==
    /\ \A k \in 1..Len(retryq) :
          /\ AdmissionIndex(retryq[k][1]) > 0
          /\ retryq[k][2] = AdmittedDepth(retryq[k][1])
    /\ pending # NoItem =>
          /\ AdmissionIndex(pending[1]) > 0
          /\ pending[2] = AdmittedDepth(pending[1])
    /\ \A i \in 1..Len(tasks) :
          tasks[i].attempt > 1 =>
              /\ AdmissionIndex(tasks[i].url) > 0
              /\ tasks[i].depth = AdmittedDepth(tasks[i].url)

\* a retry execution of a URL has failed and its next entry is stored, while
\* a second retry execution of the URL has already run
C33_Witness ==
    \E k \in 1..Len(retryq) : \E i \in 1..Len(tasks) :
        /\ tasks[i].url = retryq[k][1]
        /\ tasks[i].attempt = 2
        /\ tasks[i].pc = "done"
        /\ retryq[k][3] = 3

\* C34: the page record of a URL is handed to the output reporter at most
\* once in a session: over all executions of the URL, first and retries,
\* generate_report is called at most once.
C34_ReportedAtMostOnce ==
    \A u \in Urls : Cardinality({i \in TasksOf(u) : tasks[i].reported}) <= 1

\* C35: when launch_agents has made its slices, every position of the seed
\* list is in the slice of exactly one launched agent.
C35_EverySeedInOneSlice ==
    launch.pc # "spawning" =>
        \A k \in 1..Len(launch.targets) :
            Cardinality({a \in 1..Len(agents) : k \in agents[a].slice}) = 1

\* the executions of the primary batch that failed and whose next attempt is
\* within max_retries
PrimaryFailures ==
    {i \in 1..Len(tasks) :
        tasks[i].attempt = 1 /\ tasks[i].failed /\ tasks[i].attempt + 1 <= cfg.max_retries}

\* the retry executions of the item of execution i
ReExecutions(i) ==
    {j \in 1..Len(tasks) : tasks[j].url = tasks[i].url /\ tasks[j].attempt = tasks[i].attempt + 1}

\* C36: a URL whose execution failed in the primary batch and whose next
\* attempt is within max_retries is executed again before start_scraping
\* returns: after the first join its item is stored, held by next() or already
\* executed; when the retry loop is over its retry task exists; when
\* start_scraping has returned that task has finished.
C36_PrimaryFailureReExecuted ==
    /\ main \in {"retryloop", "backoff"} =>
          \A i \in PrimaryFailures :
              \/ ReExecutions(i) # {}
              \/ <<tasks[i].url, 2>> \in {StoredPairs[k] : k \in 1..Len(StoredPairs)}
    /\ main = "gather2" => \A i \in PrimaryFailures : ReExecutions(i) # {}
    /\ main = "returned" =>
          \A i \in PrimaryFailures : \E j \in ReExecutions(i) : tasks[j].pc = "done"

\* start_scraping has returned from a session in which two URLs failed in
\* the primary batch and both were executed again
C36_Witness ==
    /\ main = "returned"
    /\ Cardinality(PrimaryFailures) >= 2
    /\ \A i \in PrimaryFailures : \E j \in ReExecutions(i) : tasks[j].pc = "done"

\* the reporter.finalize() calls of the session so far: the one call is made
\* between the second join and the return; the return on an empty target
\* list is made before the reporter exists, and an exception that leaves
\* start_scraping leaves it before the call
FinalizeCalls == IF main = "returned" /\ cfg.targets # <<>> THEN 1 ELSE 0

\* C37: a session that is over has called reporter.finalize exactly once,
\* and when finalize has been called every started process_url execution,
\* primary and retry, has finished, so that no generate_report call follows.
C37_FinalizeOnceAfterAll ==
    /\ main \in {"returned", "crashed"} => FinalizeCalls = 1
    /\ FinalizeCalls = 1 => \A i \in 1..Len(tasks) : tasks[i].pc = "done"

\* the k-th call of the log was rejected for its depth alone: the URL was
\* not in visited
DepthRejected(k) ==
    /\ ret.log[k].depth > call.config.max_depth
    /\ ret.log[k].url \notin ret.log[k].before.visited

\* call k is the first call within max_depth for the URL of call j
NextWithinDepth(j, k) ==
    /\ j < k
    /\ ret.log[k].url = ret.log[j].url
    /\ ret.log[k].depth <= call.config.max_depth
    /\ \A i \in (j + 1)..(k - 1) :
          ~(ret.log[i].url = ret.log[j].url /\ ret.log[i].depth <= call.config.max_depth)

\* the k-th call of the log put its URL in visited and its entry in the heap
\* of its domain
Enqueued(k) ==
    LET e == ret.log[k]
        qs == e.after.queues
    IN /\ e.url \in e.after.visited
       /\ \E q \in 1..Len(qs) :
             /\ qs[q].domain = e.url.netloc
             /\ \E p \in 1..Len(qs[q].heap) :
                   qs[q].heap[p] = <<score_url(e.url, call.config), e.url, e.depth>>
       /\ Len(e.after.admitted) = Len(e.before.admitted) + 1

\* C38: an add_url call rejected because depth > max_depth leaves the URL
\* out of visited (and the manager as it was), and the next add_url call for
\* the same URL at a depth <= max_depth is accepted: the URL is put in
\* visited and its entry in the heap of its domain.
C38_DepthRejectionNotRecorded ==
    /\ \A k \in 1..Len(ret.log) :
          DepthRejected(k) =>
              /\ ret.log[k].url \notin ret.log[k].after.visited
              /\ ret.log[k].after = ret.log[k].before
    /\ \A j, k \in 1..Len(ret.log) :
          (DepthRejected(j) /\ NextWithinDepth(j, k)) => Enqueued(k)

\* a URL was rejected for its depth and then offered within max_depth and
\* enqueued
C38_Witness ==
    \E j, k \in 1..Len(ret.log) :
        DepthRejected(j) /\ NextWithinDepth(j, k) /\ Enqueued(k)

\* the executions waiting for a permit of the semaphore
SemWaiters == {i \in 1..Len(tasks) : tasks[i].pc = "waitsem"}

\* C39: no permit of the semaphore leaks: the free permits and the
\* executions inside `async with semaphore` always add up to
\* CONCURRENT_TASKS, an execution that has finished, by success or by the
\* except branch, holds none, so that all permits are free when every
\* execution has finished; and an execution waiting for a permit is not
\* stuck: start_scraping has not ended, and a permit is free or an execution
\* that holds one is still to release it.
C39_PermitsNeverLeak ==
    /\ sem + Cardinality(InFlight) = CONCURRENT_TASKS
    /\ (\A i \in 1..Len(tasks) : tasks[i].pc \in {"done", "raised"}) => sem = CONCURRENT_TASKS
    /\ SemWaiters # {} =>
          /\ main \in {"gather1", "retryloop", "backoff", "gather2"}
          /\ SemaphoreFree(sem) \/ InFlight # {}
    /\ main = "returned" => SemWaiters = {}

\* an execution that found no permit is still waiting when one execution
\* has left the block by its end and one by the except branch: the two
\* permits they gave back are free
C39_Witness ==
    /\ SemWaiters # {}
    /\ sem = 2
    /\ \E i, j \in 1..Len(tasks) :
          /\ tasks[i].pc = "done" /\ tasks[i].failed
          /\ tasks[j].pc = "done" /\ ~tasks[j].failed

====
